---- MODULE Spec2Model ----
(***************************************************************************)
(* Model of the sensor-data processor (src/src/data_processor/app.py):     *)
(* process_sensor_data, the record transformation and classification       *)
(* step, and store_processed_data, which hands the record to the table.    *)
(*                                                                         *)
(* A reading is a Python dict; it is modelled as a record over Fields      *)
(* whose absent keys hold the value Absent.  A value carries its Python    *)
(* type in t, its text in s and its number in n.  Numbers are kept in      *)
(* tenths of a unit (25.5 is n = 255, the int 18 is n = 180), so that the  *)
(* one-decimal readings of the tests are exact.                            *)
(***************************************************************************)
EXTENDS Integers, Sequences, FiniteSets, TLC

VARIABLES now, pc, sensor_data, processed_data, put_items,
          prev_data, prev_result,
          environ, kinesis_batch, event, idx, processed_count, start_time,
          responses, table,
          running, num_sensors, interval, duration, sim_start_time,
          total_records, sensor_idx, rounds, stream, stdout,
          metrics_only, resources, metric_idx, calls, delete_result,
          exit_status

\* the state of lambda_handler and of its table
handler_vars == <<environ, kinesis_batch, event, idx, processed_count,
                  start_time, responses, table>>

\* the state of simulator.py: the global flag, the arguments and locals of
\* simulate_sensors, the records the stream has accepted and the lines printed
sim_vars == <<running, num_sensors, interval, duration, sim_start_time,
              total_records, sensor_idx, rounds, stream, stdout>>

\* the state of cleanup.py: the command line flag, the locals of
\* collect_performance_metrics, the calls made so far, what delete_stack
\* returned and the exit status of the process
cleanup_vars == <<metrics_only, resources, metric_idx, calls, delete_result,
                  exit_status>>

\* the two scripts, which the data processor never touches
script_vars == <<sim_vars, cleanup_vars>>

\* the data processor, which the two scripts never touch
app_vars == <<sensor_data, processed_data, put_items, prev_data, prev_result,
              handler_vars>>

vars == <<now, pc, sensor_data, processed_data, put_items,
          prev_data, prev_result, handler_vars, script_vars>>

(***************************************************************************)
(* Bounds of the model.                                                    *)
(***************************************************************************)
MaxClock == 3
NumUUIDs == 2
MaxBatch == 2
MaxDeliveries == 2

(***************************************************************************)
(* Values.                                                                 *)
(***************************************************************************)
Val(t, s, n) == [t |-> t, s |-> s, n |-> n]

Tenths(k) == k * 10

Absent == Val("absent", "", 0)

Null == Val("null", "", 0)

PyStr(x) == Val("str", x, 0)

PyInt(k) == Val("int", "", Tenths(k))

PyFloat(q) == Val("float", "", q)

FloatNaN == Val("float", "nan", 0)

\* Decimal(str(value)): the value becomes a Decimal with the digits of the
\* float's repr; NaN becomes Decimal('NaN').
ToDecimal(v) == Val("decimal", v.s, v.n)

\* Decimal('0')
DecimalZero == Val("decimal", "", 0)

\* datetime.now(timezone.utc).isoformat() at instant c
IsoFormat(c) == Val("str", "iso", c)

\* str(uuid.uuid4()): the k-th of the identifiers uuid4 can draw
UUID(k) == Val("str", "uuid", k)

UUIDs == {UUID(k) : k \in 1..NumUUIDs}

Fields == {"id", "sensor_id", "timestamp", "temperature", "humidity",
           "category", "processed_at"}

\* the empty dict
EmptyDict == [id |-> Absent, sensor_id |-> Absent, timestamp |-> Absent,
              temperature |-> Absent, humidity |-> Absent,
              category |-> Absent, processed_at |-> Absent]

(***************************************************************************)
(* Python comparison of a value with a number: it raises TypeError for     *)
(* None and str and InvalidOperation for Decimal('NaN'); a float NaN       *)
(* compares False.                                                         *)
(***************************************************************************)
CompareRaises(v) ==
    \/ v.t \in {"null", "str"}
    \/ v.t = "decimal" /\ v.s = "nan"

\* v < k, with k in whole units
PyLess(v, k) == v.s # "nan" /\ v.n < Tenths(k)

(***************************************************************************)
(* process_sensor_data, statement by statement.                            *)
(***************************************************************************)
\* ConvertFloats that rounds the float to a whole number on the way
ConvertFloats_Rounding(d) ==
    [k \in Fields |->
        IF d[k].t = "float"
        THEN Val("decimal", d[k].s, (d[k].n \div 10) * 10)
        ELSE d[k]]

\* lines 21-24: every top-level float value becomes a Decimal
ConvertFloats(d) ==
    [k \in Fields |-> IF d[k].t = "float" THEN ToDecimal(d[k]) ELSE d[k]]

\* AssignId that ignores sensor_id
AssignId_AlwaysUuid(d, u) ==
    IF d.id = Absent THEN [d EXCEPT !.id = u] ELSE d

\* lines 26-28: the id is set only when the key is absent; the default of
\* dict.get (the uuid) is used only when the key sensor_id is absent
AssignId(d, u) ==
    IF d.id = Absent
    THEN [d EXCEPT !.id = IF d.sensor_id # Absent THEN d.sensor_id ELSE u]
    ELSE d

\* SetProcessedAt that keeps a processed_at the reading came with
SetProcessedAt_KeepExisting(d, c) ==
    IF d.processed_at # Absent THEN d ELSE [d EXCEPT !.processed_at = IsoFormat(c)]

\* lines 30-31
SetProcessedAt(d, c) == [d EXCEPT !.processed_at = IsoFormat(c)]

\* ClampTemperature without the clamp
ClampTemperature_NoClamp(d) == d

\* lines 33-35
ClampTemperature(d) ==
    IF d.temperature # Absent /\ PyLess(d.temperature, 0)
    THEN [d EXCEPT !.temperature = DecimalZero]
    ELSE d

\* line 38: processed_data.get('temperature', 0)
GetTemperature(d) == IF d.temperature # Absent THEN d.temperature ELSE PyInt(0)

\* Categorize with the bound 18 taken into the lower band
Categorize_Inclusive18(d) ==
    LET temp == GetTemperature(d)
    IN  [d EXCEPT !.category =
            IF PyLess(temp, 0) THEN PyStr("freezing")
            ELSE IF PyLess(temp, 18) \/ temp.n = Tenths(18) THEN PyStr("cold")
            ELSE IF PyLess(temp, 24) THEN PyStr("normal")
            ELSE IF PyLess(temp, 30) THEN PyStr("warm")
            ELSE PyStr("hot")]

\* Categorize that keeps a category the reading came with
Categorize_KeepExisting(d) ==
    LET temp == GetTemperature(d)
    IN  IF d.category # Absent THEN d
        ELSE [d EXCEPT !.category =
                IF PyLess(temp, 0) THEN PyStr("freezing")
                ELSE IF PyLess(temp, 18) THEN PyStr("cold")
                ELSE IF PyLess(temp, 24) THEN PyStr("normal")
                ELSE IF PyLess(temp, 30) THEN PyStr("warm")
                ELSE PyStr("hot")]

\* lines 39-48
Categorize(d) ==
    LET temp == GetTemperature(d)
    IN  [d EXCEPT !.category =
            IF PyLess(temp, 0) THEN PyStr("freezing")
            ELSE IF PyLess(temp, 18) THEN PyStr("cold")
            ELSE IF PyLess(temp, 24) THEN PyStr("normal")
            ELSE IF PyLess(temp, 30) THEN PyStr("warm")
            ELSE PyStr("hot")]

\* the comparisons of lines 34 and 39 raise for a temperature that cannot be
\* compared with a number
ProcessRaises(sd) ==
    LET d == ConvertFloats(sd)
    IN  d.temperature # Absent /\ CompareRaises(d.temperature)

\* the record process_sensor_data returns at instant c when uuid4 draws u
process_sensor_data(sd, c, u) ==
    Categorize(ClampTemperature(SetProcessedAt(AssignId(ConvertFloats(sd), u), c)))

(***************************************************************************)
(* store_processed_data: the timestamp default of lines 56-58, applied to  *)
(* the record it is given.                                                 *)
(***************************************************************************)
store_processed_data_Overwrite(pd, c) == [pd EXCEPT !.timestamp = IsoFormat(c)]

store_processed_data(pd, c) ==
    IF pd.timestamp = Absent THEN [pd EXCEPT !.timestamp = IsoFormat(c)] ELSE pd

(***************************************************************************)
(* Readings the decoder can hand to the transformer.                       *)
(***************************************************************************)
IdVals == {Absent, PyStr(""), PyStr("a")}

SensorIdVals == {Absent, PyStr(""), PyStr("s1")}

TimestampVals == {Absent, IsoFormat(0)}

TemperatureVals ==
    {Absent, Null, FloatNaN,
     PyFloat(-100), PyFloat(-1), PyFloat(0), PyFloat(50), PyFloat(179), PyFloat(180),
     PyFloat(239), PyFloat(240), PyFloat(255), PyFloat(299), PyFloat(300),
     PyInt(-1), PyInt(18), PyInt(30)}

HumidityVals == {Absent, PyFloat(602)}

CategoryVals == {Absent, PyStr("freezing")}

ProcessedAtVals == {Absent, IsoFormat(0)}

Readings ==
    [id : IdVals, sensor_id : SensorIdVals, timestamp : TimestampVals,
     temperature : TemperatureVals, humidity : HumidityVals,
     category : CategoryVals, processed_at : ProcessedAtVals]

(***************************************************************************)
(* The state machine: a driver that calls process_sensor_data on a reading *)
(* and then store_processed_data on the result, as lines 90-93 of          *)
(* lambda_handler do for one record, while the wall clock advances.        *)
(***************************************************************************)
\* simulator.py is not running: line 13 and no call of simulate_sensors
SimNotStarted ==
    /\ running = TRUE
    /\ num_sensors = 0
    /\ interval = 0
    /\ duration = 0
    /\ sim_start_time = 0
    /\ total_records = 0
    /\ sensor_idx = 0
    /\ rounds = 0
    /\ stream = <<>>
    /\ stdout = <<>>

\* cleanup.py is not running
CleanupNotStarted ==
    /\ metrics_only = FALSE
    /\ resources = {}
    /\ metric_idx = 0
    /\ calls = <<>>
    /\ delete_result = "not_called"
    /\ exit_status = -1

Init ==
    /\ SimNotStarted
    /\ CleanupNotStarted
    /\ now = 1
    /\ pc = "idle"
    /\ sensor_data = EmptyDict
    /\ processed_data = EmptyDict
    /\ put_items = <<>>
    /\ prev_data = EmptyDict
    /\ prev_result = EmptyDict
    /\ environ = {"TABLE_NAME"}
    /\ kinesis_batch = <<>>
    /\ event = <<>>
    /\ idx = 0
    /\ processed_count = 0
    /\ start_time = 0
    /\ responses = <<>>
    /\ table = {}

\* the wall clock read by datetime.now
Tick ==
    /\ now < MaxClock
    /\ now' = now + 1
    /\ UNCHANGED <<pc, sensor_data, processed_data, put_items,
                   prev_data, prev_result, handler_vars>>
    /\ UNCHANGED script_vars

\* processed_data = process_sensor_data(sensor_data)
CallProcess(r, u) ==
    /\ pc = "idle"
    /\ sensor_data' = r
    /\ IF ProcessRaises(r)
       THEN pc' = "raised" /\ processed_data' = EmptyDict
       ELSE pc' = "processed" /\ processed_data' = process_sensor_data(r, now, u)
    /\ UNCHANGED <<now, put_items, prev_data, prev_result, handler_vars>>
    /\ UNCHANGED script_vars

\* store_processed_data(processed_data): the record itself gets the
\* timestamp, then table.put_item(Item=processed_data) succeeds or raises
CallStore(ok) ==
    /\ pc = "processed"
    /\ processed_data' = store_processed_data(processed_data, now)
    /\ IF ok
       THEN pc' = "stored" /\ put_items' = Append(put_items, processed_data')
       ELSE pc' = "store_failed" /\ put_items' = put_items
    /\ UNCHANGED <<now, sensor_data, prev_data, prev_result, handler_vars>>
    /\ UNCHANGED script_vars

\* the call is over: its locals are gone, and the next case starts with a
\* fresh table
NextCase ==
    /\ pc \in {"processed", "raised", "stored", "store_failed"}
    /\ pc' = "idle"
    /\ sensor_data' = EmptyDict
    /\ processed_data' = EmptyDict
    /\ put_items' = <<>>
    /\ prev_data' = EmptyDict
    /\ prev_result' = EmptyDict
    /\ UNCHANGED <<now, handler_vars>>
    /\ UNCHANGED script_vars

Next ==
    \/ Tick
    \/ \E r \in Readings, u \in UUIDs : CallProcess(r, u)
    \/ \E ok \in BOOLEAN : CallStore(ok)
    \/ NextCase

Spec == Init /\ [][Next]_vars

(***************************************************************************)
(* Two transformations in a row, as test_process_sensor_data makes them:   *)
(* the reading and the result of the earlier call are kept in prev_data    *)
(* and prev_result while the next reading is transformed.                  *)
(***************************************************************************)
PairReadings ==
    [id : {Absent, PyStr("a")}, sensor_id : SensorIdVals,
     timestamp : TimestampVals,
     temperature : {Absent, PyFloat(-100), PyFloat(180), PyInt(18), PyFloat(255)},
     humidity : {Absent}, category : CategoryVals, processed_at : {Absent}]

Remember ==
    /\ pc = "processed"
    /\ prev_data' = sensor_data
    /\ prev_result' = processed_data
    /\ pc' = "idle"
    /\ sensor_data' = EmptyDict
    /\ processed_data' = EmptyDict
    /\ UNCHANGED <<now, put_items, handler_vars>>
    /\ UNCHANGED script_vars

NextPair ==
    \/ Tick
    \/ \E r \in PairReadings, u \in UUIDs : CallProcess(r, u)
    \/ Remember
    \/ NextCase

SpecPair == Init /\ [][NextPair]_vars

TypeOK ==
    /\ now \in 1..MaxClock
    /\ pc \in {"idle", "processed", "raised", "stored", "store_failed"}
    /\ sensor_data \in Readings \cup {EmptyDict}
    /\ DOMAIN processed_data = Fields
    /\ Len(put_items) <= 1
(***************************************************************************)
(* lambda_handler.  A Kinesis record is modelled by how its data decodes:  *)
(* enc tells which of base64.b64decode, bytes.decode('utf-8') and          *)
(* json.loads fails on it, if any, and reading is the object json.loads    *)
(* yields otherwise.                                                       *)
(***************************************************************************)
Record(enc, r) == [enc |-> enc, reading |-> r]

\* DecodeError when the bytes are decoded with errors='ignore'
DecodeError_IgnoreUtf8(rec) ==
    IF rec.enc = "not_base64" THEN "binascii.Error"
    ELSE IF rec.enc = "not_json" THEN "JSONDecodeError"
    ELSE ""

\* the exception line 85 or 87 raises on the record, "" when it decodes
DecodeError(rec) ==
    IF rec.enc = "not_base64" THEN "binascii.Error"
    ELSE IF rec.enc = "not_utf8" THEN "UnicodeDecodeError"
    ELSE IF rec.enc = "not_json" THEN "JSONDecodeError"
    ELSE ""

\* sensor_data = json.loads(payload)
DecodeRecord(rec) == rec.reading

\* the reading test_single_record_processing sends
ReadingKeyed ==
    [EmptyDict EXCEPT !.sensor_id = PyStr("s1"), !.timestamp = IsoFormat(0),
                      !.temperature = PyFloat(225), !.humidity = PyFloat(550)]

\* a reading without timestamp, as the unit test's
ReadingNoTimestamp ==
    [EmptyDict EXCEPT !.sensor_id = PyStr("s1"), !.temperature = PyFloat(50)]

\* a reading whose temperature is null
ReadingNullTemperature ==
    [EmptyDict EXCEPT !.sensor_id = PyStr("s1"), !.timestamp = IsoFormat(0),
                      !.temperature = Null]

HandlerReadings ==
    {ReadingKeyed, ReadingNoTimestamp, ReadingNullTemperature}

Records ==
    {Record("json", r) : r \in HandlerReadings}
        \cup {Record(e, EmptyDict) : e \in {"not_base64", "not_utf8", "not_json"}}

\* the batches of records the stream can hold for the function; the batch
\* kinesis_batch is delivered to every invocation, again after a failure and
\* again after a success (at-least-once delivery)
Events == UNION {[1..n -> Records] : n \in 0..MaxBatch}

\* what the invoker gets: the dict of lines 101-107, or the exception that
\* line 111 raises again
Summary(n, secs) ==
    [raised |-> FALSE, statusCode |-> 200, processed_records |-> n,
     processing_time_seconds |-> secs, error |-> ""]

Propagated(e) ==
    [raised |-> TRUE, statusCode |-> 0, processed_records |-> 0,
     processing_time_seconds |-> 0, error |-> e]

\* the table: one item per key (id, timestamp), the last write wins
Key(item) == <<item.id, item.timestamp>>

PutItem(tbl, item) == {x \in tbl : Key(x) # Key(item)} \cup {item}

\* CallerReadingAfter when processed_data is the caller's dict, not a copy
CallerReadingAfter_NoCopy(sd, c, u) == process_sensor_data(sd, c, u)

\* line 19: the assignments of lines 24-48 go to the copy, so the caller's
\* dict is after the call what it was before
CallerReadingAfter(sd, c, u) == sd

InitHandler ==
    /\ SimNotStarted
    /\ CleanupNotStarted
    /\ now = 1
    /\ pc = "init"
    /\ sensor_data = EmptyDict
    /\ processed_data = EmptyDict
    /\ put_items = <<>>
    /\ prev_data = EmptyDict
    /\ prev_result = EmptyDict
    /\ environ \in {{}, {"TABLE_NAME"}}
    /\ kinesis_batch \in Events
    /\ event = <<>>
    /\ idx = 0
    /\ processed_count = 0
    /\ start_time = 0
    /\ responses = <<>>
    /\ table = {}

\* LoadModule with os.environ.get('TABLE_NAME'), which does not raise
LoadModule_EnvGet ==
    /\ pc = "init"
    /\ pc' = "idle"
    /\ UNCHANGED <<now, sensor_data, processed_data, put_items,
                   prev_data, prev_result, handler_vars>>
    /\ UNCHANGED script_vars

\* lines 10-12, run when the module is loaded: os.environ['TABLE_NAME']
\* raises KeyError when the variable is not set
LoadModule ==
    /\ pc = "init"
    /\ pc' = IF "TABLE_NAME" \in environ THEN "idle" ELSE "init_failed"
    /\ UNCHANGED <<now, sensor_data, processed_data, put_items,
                   prev_data, prev_result, handler_vars>>
    /\ UNCHANGED script_vars

\* lambda_handler with a processed_count that lives on between invocations
lambda_handler_KeepCount(b) ==
    /\ pc = "idle"
    /\ Len(responses) < MaxDeliveries
    /\ event' = b
    /\ idx' = 0
    /\ start_time' = now
    /\ put_items' = <<>>
    /\ sensor_data' = EmptyDict
    /\ processed_data' = EmptyDict
    /\ pc' = "loop"
    /\ UNCHANGED <<now, prev_data, prev_result, environ, kinesis_batch,
                   responses, table, processed_count>>
    /\ UNCHANGED script_vars

\* lines 77-81: an invocation starts on the batch b; put_items collects the
\* writes the table accepts during this invocation
lambda_handler(b) ==
    /\ pc = "idle"
    /\ Len(responses) < MaxDeliveries
    /\ event' = b
    /\ idx' = 0
    /\ processed_count' = 0
    /\ start_time' = now
    /\ put_items' = <<>>
    /\ sensor_data' = EmptyDict
    /\ processed_data' = EmptyDict
    /\ pc' = "loop"
    /\ UNCHANGED <<now, prev_data, prev_result, environ, kinesis_batch,
                   responses, table>>
    /\ UNCHANGED script_vars

\* lines 83-87: the next record is decoded; an exception goes to lines
\* 109-111 and ends the invocation
Decode ==
    /\ pc = "loop"
    /\ idx < Len(event)
    /\ idx' = idx + 1
    /\ LET rec == event[idx + 1]
       IN  IF DecodeError(rec) # ""
           THEN /\ responses' = Append(responses, Propagated(DecodeError(rec)))
                /\ pc' = "idle"
                /\ UNCHANGED sensor_data
           ELSE /\ sensor_data' = DecodeRecord(rec)
                /\ pc' = "decoded"
                /\ UNCHANGED responses
    /\ UNCHANGED <<now, processed_data, put_items, prev_data, prev_result,
                   environ, kinesis_batch, event, processed_count, start_time,
                   table>>
    /\ UNCHANGED script_vars

\* line 90
Process(u) ==
    /\ pc = "decoded"
    /\ IF ProcessRaises(sensor_data)
       THEN /\ responses' = Append(responses, Propagated("TypeError"))
            /\ pc' = "idle"
            /\ UNCHANGED <<sensor_data, processed_data>>
       ELSE /\ processed_data' = process_sensor_data(sensor_data, now, u)
            /\ sensor_data' = CallerReadingAfter(sensor_data, now, u)
            /\ pc' = "transformed"
            /\ UNCHANGED responses
    /\ UNCHANGED <<now, put_items, prev_data, prev_result, environ,
                   kinesis_batch, event, idx, processed_count, start_time,
                   table>>
    /\ UNCHANGED script_vars

\* Store that takes back the writes of the invocation when a write fails
Store_Rollback(ok) ==
    /\ pc = "transformed"
    /\ processed_data' = store_processed_data(processed_data, now)
    /\ IF ok
       THEN /\ table' = PutItem(table, processed_data')
            /\ put_items' = Append(put_items, processed_data')
            /\ processed_count' = processed_count + 1
            /\ pc' = "loop"
            /\ UNCHANGED responses
       ELSE /\ responses' = Append(responses, Propagated("PersistenceError"))
            /\ pc' = "idle"
            /\ table' = {x \in table :
                            \A i \in 1..Len(put_items) : x # put_items[i]}
            /\ UNCHANGED <<put_items, processed_count>>
    /\ UNCHANGED <<now, sensor_data, prev_data, prev_result,
                   environ, kinesis_batch, event, idx, start_time>>
    /\ UNCHANGED script_vars

\* Store that logs a failed write and goes on with the next record
Store_SwallowError(ok) ==
    /\ pc = "transformed"
    /\ processed_data' = store_processed_data(processed_data, now)
    /\ IF ok
       THEN /\ table' = PutItem(table, processed_data')
            /\ put_items' = Append(put_items, processed_data')
            /\ processed_count' = processed_count + 1
       ELSE UNCHANGED <<table, put_items, processed_count>>
    /\ pc' = "loop"
    /\ UNCHANGED <<now, sensor_data, prev_data, prev_result,
                   environ, kinesis_batch, event, idx, start_time, responses>>
    /\ UNCHANGED script_vars

\* lines 93-94: store_processed_data sets the timestamp in the record it is
\* given, then table.put_item takes the item or raises
Store(ok) ==
    /\ pc = "transformed"
    /\ processed_data' = store_processed_data(processed_data, now)
    /\ IF ok
       THEN /\ table' = PutItem(table, processed_data')
            /\ put_items' = Append(put_items, processed_data')
            /\ processed_count' = processed_count + 1
            /\ pc' = "loop"
            /\ UNCHANGED responses
       ELSE /\ responses' = Append(responses, Propagated("PersistenceError"))
            /\ pc' = "idle"
            /\ UNCHANGED <<table, put_items, processed_count>>
    /\ UNCHANGED <<now, sensor_data, prev_data, prev_result,
                   environ, kinesis_batch, event, idx, start_time>>
    /\ UNCHANGED script_vars

\* lines 96-107: the loop is over
ReturnSummary ==
    /\ pc = "loop"
    /\ idx = Len(event)
    /\ responses' = Append(responses, Summary(processed_count, now - start_time))
    /\ pc' = "idle"
    /\ UNCHANGED <<now, sensor_data, processed_data, put_items, prev_data,
                   prev_result, environ, kinesis_batch, event, idx,
                   processed_count, start_time, table>>
    /\ UNCHANGED script_vars

NextHandler ==
    \/ Tick
    \/ LoadModule
    \/ lambda_handler(kinesis_batch)
    \/ Decode
    \/ \E u \in UUIDs : Process(u)
    \/ \E ok \in BOOLEAN : Store(ok)
    \/ ReturnSummary

SpecHandler == InitHandler /\ [][NextHandler]_vars

(***************************************************************************)
(* Properties.  Returned holds while processed_data is a record returned   *)
(* by process_sensor_data (store_processed_data may have added its         *)
(* timestamp to it since).                                                 *)
(***************************************************************************)
Returned == pc \in {"processed", "stored", "store_failed"}

C2_NegativeClamped ==
    LET t == sensor_data.temperature
        nonneg(d) == d.temperature.n >= 0 /\ d.category # PyStr("freezing")
    IN  /\ Returned => nonneg(processed_data)
        /\ (Returned /\ t.t \in {"int", "float"} /\ t.n < 0) =>
                /\ processed_data.temperature.t \in {"int", "decimal"}
                /\ processed_data.temperature.n = 0
                /\ processed_data.category = PyStr("cold")
        /\ \A i \in 1..Len(put_items) : nonneg(put_items[i])

\* the reading with temperature -10.0 has been transformed and stored
C2_Witness ==
    /\ pc = "stored"
    /\ sensor_data.temperature = PyFloat(-100)
    /\ put_items[1].temperature = DecimalZero
    /\ put_items[1].category = PyStr("cold")

\* C3: a reading with a sensor_id and temperature 25.5, without id and
\* timestamp, comes out with category 'normal', temperature 25.5 and the
\* sensor_id as id.
C3_Scenario255 ==
    (/\ pc = "processed"
     /\ sensor_data.temperature = PyFloat(255)
     /\ sensor_data.sensor_id # Absent
     /\ sensor_data.id = Absent
     /\ sensor_data.timestamp = Absent) =>
        /\ processed_data.category = PyStr("normal")
        /\ processed_data.temperature.n = 255
        /\ processed_data.id = sensor_data.sensor_id
\* C4: the id follows three cases in order: a non-empty id of the reading is
\* kept; otherwise a present, non-empty sensor_id becomes the id; otherwise
\* the id is a freshly generated identifier.
C4_IdThreeCases ==
    pc = "processed" =>
        LET nonEmpty(v) == v.t = "str" /\ v.s # ""
        IN  IF nonEmpty(sensor_data.id)
            THEN processed_data.id = sensor_data.id
            ELSE IF nonEmpty(sensor_data.sensor_id)
            THEN processed_data.id = sensor_data.sensor_id
            ELSE processed_data.id \in UUIDs

\* C5: the id of every returned record, and of every record written to the
\* table, is a non-empty string, also when the reading's id or sensor_id is
\* the empty string.
C5_IdNeverEmpty ==
    LET nonEmpty(v) == v.t = "str" /\ v.s # ""
    IN  /\ Returned => nonEmpty(processed_data.id)
        /\ \A i \in 1..Len(put_items) : nonEmpty(put_items[i].id)

\* both the earlier and the current call have returned a record
BothReturned == pc = "processed" /\ prev_result # EmptyDict

\* C6 as stated: readings with the same sensor_id and no id get the same id,
\* and two readings with neither id nor sensor_id never get the same id.
C6_IdStabilityAndUniqueness ==
    BothReturned =>
        /\ (/\ prev_data.id = Absent /\ sensor_data.id = Absent
            /\ sensor_data.sensor_id # Absent
            /\ prev_data.sensor_id = sensor_data.sensor_id) =>
                prev_result.id = processed_data.id
        /\ (/\ prev_data.id = Absent /\ sensor_data.id = Absent
            /\ prev_data.sensor_id = Absent /\ sensor_data.sensor_id = Absent) =>
                prev_result.id # processed_data.id

\* C6 amended: readings with the same sensor_id and no id get the same id,
\* the sensor_id; a reading with neither id nor sensor_id gets one of the
\* identifiers uuid4 draws, whatever was drawn before.
C6_IdStability ==
    BothReturned =>
        /\ (/\ prev_data.id = Absent /\ sensor_data.id = Absent
            /\ sensor_data.sensor_id # Absent
            /\ prev_data.sensor_id = sensor_data.sensor_id) =>
                /\ prev_result.id = processed_data.id
                /\ processed_data.id = sensor_data.sensor_id
        /\ (sensor_data.id = Absent /\ sensor_data.sensor_id = Absent) =>
                processed_data.id \in UUIDs
        /\ (prev_data.id = Absent /\ prev_data.sensor_id = Absent) =>
                prev_result.id \in UUIDs

\* two readings with sensor_id s1 that differ in temperature were
\* transformed at different instants and both have the id s1
C6_Witness ==
    /\ BothReturned
    /\ prev_data.id = Absent /\ sensor_data.id = Absent
    /\ prev_data.sensor_id = PyStr("s1") /\ sensor_data.sensor_id = PyStr("s1")
    /\ prev_data.temperature # sensor_data.temperature
    /\ prev_result.processed_at # processed_data.processed_at
    /\ prev_result.id = PyStr("s1") /\ processed_data.id = PyStr("s1")

\* the fields the transformation does not name
PassThroughFields ==
    Fields \ {"id", "timestamp", "temperature", "category", "processed_at"}

\* C7 as stated: every field other than id, timestamp, temperature, category
\* and processed_at has the same value and the same type in the output as in
\* the input.
C7_PassThroughIdentical ==
    Returned => \A f \in PassThroughFields : processed_data[f] = sensor_data[f]

\* C7 amended: every such field that is not a float is identical in the
\* output, an absent one stays absent, and a float comes out as the Decimal
\* with the same digits.
C7_PassThroughUpToDecimal ==
    Returned =>
        \A f \in PassThroughFields :
            IF sensor_data[f].t = "float"
            THEN /\ processed_data[f].t = "decimal"
                 /\ processed_data[f].s = sensor_data[f].s
                 /\ processed_data[f].n = sensor_data[f].n
            ELSE processed_data[f] = sensor_data[f]

\* a reading with the float humidity 60.2 and a sensor_id has been
\* transformed
C7_Witness ==
    /\ pc = "processed"
    /\ sensor_data.humidity = PyFloat(602)
    /\ sensor_data.sensor_id = PyStr("s1")
    /\ processed_data.humidity = Val("decimal", "", 602)
    /\ processed_data.sensor_id = PyStr("s1")

\* C8 as stated: the record the transformer returns carries a timestamp, a
\* timestamp of the reading is never overwritten, and every record handed to
\* the table carries a timestamp.
C8_TransformerSetsTimestamp ==
    /\ Returned =>
        /\ processed_data.timestamp # Absent
        /\ sensor_data.timestamp # Absent =>
                processed_data.timestamp = sensor_data.timestamp
    /\ \A i \in 1..Len(put_items) : put_items[i].timestamp # Absent

\* C8 amended: process_sensor_data returns the timestamp as it came (absent
\* stays absent); store_processed_data sets an absent timestamp to the
\* current time and leaves a present one alone, so every record handed to
\* the table carries a timestamp.
C8_StoreSetsTimestamp ==
    /\ pc = "processed" => processed_data.timestamp = sensor_data.timestamp
    /\ pc \in {"stored", "store_failed"} =>
        IF sensor_data.timestamp = Absent
        THEN \E c \in 1..now :
                /\ processed_data.timestamp = IsoFormat(c)
                /\ processed_data.processed_at.n <= c
        ELSE processed_data.timestamp = sensor_data.timestamp
    /\ \A i \in 1..Len(put_items) :
        /\ put_items[i].timestamp # Absent
        /\ put_items[i] = processed_data

\* a reading without timestamp was transformed at one instant and stored at
\* a later one, and the table got the record with the later instant
C8_Witness ==
    /\ pc = "stored"
    /\ sensor_data.timestamp = Absent
    /\ put_items[1].timestamp = IsoFormat(2)
    /\ put_items[1].processed_at = IsoFormat(1)

\* C9: processed_at is always set to the time of the transformation,
\* whatever processed_at the reading carried, and the category is always
\* computed anew: it is the category the reading would get without the
\* category and processed_at it came with.
C9_ProcessedAtAndCategoryOverwritten ==
    [][(pc = "idle" /\ pc' = "processed") =>
        /\ processed_data'.processed_at = IsoFormat(now)
        /\ processed_data'.processed_at # sensor_data'.processed_at
        /\ processed_data'.category \in
              {PyStr("cold"), PyStr("normal"), PyStr("warm"), PyStr("hot")}
        /\ processed_data'.category =
              process_sensor_data(
                  [sensor_data' EXCEPT !.category = Absent,
                                       !.processed_at = Absent],
                  now, UUID(1)).category]_vars

\* a reading that came with a processed_at and a category has been
\* transformed at instant 2
C9_Witness ==
    /\ pc = "processed"
    /\ sensor_data.processed_at = IsoFormat(0)
    /\ sensor_data.category = PyStr("freezing")
    /\ processed_data.processed_at = IsoFormat(2)
    /\ processed_data.category = PyStr("normal")

\* C10: two readings with the same temperature, or both without one, get the
\* same category, whatever their other fields, the clock and the earlier
\* transformation are.
C10_CategoryFunctionOfTemperature ==
    LET a == prev_data.temperature
        b == sensor_data.temperature
    IN  (/\ BothReturned
         /\ (a = Absent) <=> (b = Absent)
         /\ a.n = b.n) => prev_result.category = processed_data.category

\* the int 18 and the float 18.0 were transformed at different instants, in
\* readings that differ in id, timestamp and the category they came with
C10_Witness ==
    /\ BothReturned
    /\ prev_data.temperature = PyInt(18)
    /\ sensor_data.temperature = PyFloat(180)
    /\ prev_data.category # sensor_data.category
    /\ prev_data.id # sensor_data.id
    /\ prev_data.timestamp # sensor_data.timestamp
    /\ prev_result.processed_at # processed_data.processed_at
    /\ processed_data.category = PyStr("normal")
\* C11: process_sensor_data never raises: for every decoded JSON object, with
\* any subset of the optional fields and any JSON value for them (number,
\* string, null), the call returns a record.
C11_NeverRaises ==
    pc # "raised"
\* the category test_single_record_processing expects for the temperature it
\* sent (lines 178-188 of the end-to-end test)
expected_category(temp) ==
    IF PyLess(temp, 0) THEN PyStr("freezing")
    ELSE IF PyLess(temp, 18) THEN PyStr("cold")
    ELSE IF PyLess(temp, 24) THEN PyStr("comfortable")
    ELSE IF PyLess(temp, 30) THEN PyStr("warm")
    ELSE PyStr("hot")

(***************************************************************************)
(* Properties of lambda_handler.  Ended holds between invocations, once    *)
(* one has ended; LastResponse is what that invocation gave its invoker.   *)
(***************************************************************************)
Ended == pc = "idle" /\ Len(responses) >= 1

LastResponse == responses[Len(responses)]

\* the first record of the batch b that cannot be decoded or transformed,
\* 0 when there is none
FirstBad(b) ==
    LET bad == {i \in 1..Len(b) :
                  DecodeError(b[i]) # "" \/ ProcessRaises(DecodeRecord(b[i]))}
    IN  IF bad = {} THEN 0 ELSE CHOOSE i \in bad : \A j \in bad : i <= j

\* C12: for a batch of N well-formed records whose writes all succeed, the
\* handler returns statusCode 200 with processed_records = N and the table
\* has received N writes.
C12_AllRecordsCounted ==
    (/\ Ended
     /\ \A i \in 1..Len(event) : DecodeError(event[i]) = ""
     /\ LastResponse.error # "PersistenceError") =>
        /\ ~LastResponse.raised
        /\ LastResponse.statusCode = 200
        /\ LastResponse.processed_records = Len(event)
        /\ Len(put_items) = Len(event)

\* C13: when decoding or the write fails for a record, the handler raises the
\* error, gives no summary (no summary ever counts fewer records than the
\* batch has), and the records after the failing one are neither decoded nor
\* transformed nor written.
C13_FailureAbortsBatch ==
    /\ \A j \in 1..Len(responses) :
          ~responses[j].raised =>
              /\ responses[j].processed_records = Len(kinesis_batch)
              /\ \A i \in 1..Len(kinesis_batch) : DecodeError(kinesis_batch[i]) = ""
    /\ (Ended /\ LastResponse.raised) =>
          /\ idx \in 1..Len(event)
          /\ Len(put_items) = idx - 1
          /\ processed_count = idx - 1
          /\ \A i \in 1..(idx - 1) : DecodeError(event[i]) = ""
          /\ LastResponse.error \in {"binascii.Error", "UnicodeDecodeError",
                                     "JSONDecodeError"} =>
                LastResponse.error = DecodeError(event[idx])
    /\ (Ended /\ (Len(put_items) < Len(event)
                  \/ \E i \in 1..Len(event) : DecodeError(event[i]) # "")) =>
          LastResponse.raised

\* the write of the first of two records failed: the error went to the
\* invoker and the second record was never decoded
C13_Witness ==
    /\ Ended
    /\ Len(event) = 2
    /\ DecodeError(event[2]) = ""
    /\ LastResponse.error = "PersistenceError"
    /\ idx = 1
    /\ put_items = <<>>

C16_NoTableNameNoInvocation ==
    "TABLE_NAME" \notin environ =>
        /\ pc \in {"init", "init_failed"}
        /\ responses = <<>>
        /\ event = <<>> /\ idx = 0
        /\ sensor_data = EmptyDict /\ processed_data = EmptyDict
        /\ put_items = <<>> /\ table = {}

\* the module was loaded without TABLE_NAME, with a batch of records waiting
C16_Witness ==
    /\ "TABLE_NAME" \notin environ
    /\ pc = "init_failed"
    /\ Len(kinesis_batch) = 2
    /\ now > 1
\* C17: the category stored for a reading sent through the pipeline is the
\* one the end-to-end test computes from the temperature it sent: below 0
\* 'freezing', below 18 'cold', below 24 'comfortable', below 30 'warm',
\* otherwise 'hot'.
C17_StoredCategoryMatchesTest ==
    \A i \in 1..Len(put_items) :
        put_items[i].category = expected_category(event[i].reading.temperature)

C19_WritesInOrderNoRollback ==
    /\ Len(put_items) <= idx
    /\ pc \in {"loop", "idle"} /\ ~(Ended /\ LastResponse.raised) =>
          Len(put_items) = idx
    /\ (Ended /\ LastResponse.raised) => Len(put_items) = idx - 1
    /\ \A i \in 1..Len(put_items) :
          /\ \E c \in 1..now, c2 \in 1..now, u \in UUIDs :
                /\ c <= c2
                /\ put_items[i] =
                      store_processed_data(
                          process_sensor_data(event[i].reading, c, u), c2)
          /\ \A j \in 1..(i - 1) :
                put_items[j].processed_at.n <= put_items[i].processed_at.n
          /\ (\A j \in (i + 1)..Len(put_items) :
                  Key(put_items[j]) # Key(put_items[i])) =>
                put_items[i] \in table

\* the second of two records failed: the invoker got the error and the table
\* keeps the first record
C19_Witness ==
    /\ Ended
    /\ LastResponse.raised
    /\ Len(event) >= 2
    /\ idx = 2
    /\ Len(put_items) = 1
    /\ put_items[1] \in table
    /\ put_items[1].sensor_id = event[1].reading.sensor_id

MaxSensors == 2
MaxRounds == 2

\* the status line is printed when total_records is a multiple of this
StatusEvery == 50

\* --sensors, --interval (its sign is what matters to time.sleep) and
\* --duration, in ticks of the clock
SensorCounts == 0..MaxSensors
Intervals == {-1, 1}
Durations == 0..(MaxClock - 1)

\* sensor_ids = [f"sensor-{i+1}" for i in range(num_sensors)], 1-based here
sensor_ids(n) == [i \in 1..n |-> <<"sensor-", i>>]

\* the dict generate_sensor_data builds; the random measurements and the
\* timestamp are left out, no line of simulate_sensors reads them
generate_sensor_data(sensor_id) == [sensor_id |-> sensor_id]

\* the record put_record receives from send_to_kinesis
send_to_kinesis(data, partition_key) ==
    [Data |-> data, PartitionKey |-> partition_key]

\* time.time() - start_time
Elapsed == now - sim_start_time

\* the lines simulate_sensors prints after the two opening lines
StatusLine(n) == [line |-> "Sent", total |-> n]
ErrorLine == [line |-> "Error in simulation", total |-> -1]
CompleteLine(n) == [line |-> "Simulation complete", total |-> n]
ThroughputLine == [line |-> "Average throughput", total |-> -1]

\* main has installed signal_handler and simulate_sensors has reached its
\* try block: lines 45-55 have run
InitSim ==
    /\ now = 1
    /\ pc = "while"
    /\ sensor_data = EmptyDict
    /\ processed_data = EmptyDict
    /\ put_items = <<>>
    /\ prev_data = EmptyDict
    /\ prev_result = EmptyDict
    /\ environ = {"TABLE_NAME"}
    /\ kinesis_batch = <<>>
    /\ event = <<>>
    /\ idx = 0
    /\ processed_count = 0
    /\ start_time = 0
    /\ responses = <<>>
    /\ table = {}
    /\ CleanupNotStarted
    /\ running = TRUE
    /\ num_sensors \in SensorCounts
    /\ interval \in Intervals
    /\ duration \in Durations
    /\ sim_start_time = now
    /\ total_records = 0
    /\ sensor_idx = 0
    /\ rounds = 0
    /\ stream = <<>>
    /\ stdout = <<>>

\* simulate_sensors has left its finally block, by returning or by raising
SimEnded == pc \in {"done", "zero_division"}

\* SIGINT arrives while the process runs: running = False
signal_handler ==
    /\ ~SimEnded
    /\ running' = FALSE
    /\ UNCHANGED <<now, pc, app_vars, cleanup_vars, num_sensors, interval,
                   duration, sim_start_time, total_records, sensor_idx,
                   rounds, stream, stdout>>

\* line 62: while running and (time.time() - start_time) < duration; rounds
\* counts the rounds begun, and no more than MaxRounds are explored
WhileTest ==
    /\ pc = "while"
    /\ IF running /\ Elapsed < duration
       THEN /\ rounds < MaxRounds
            /\ pc' = "for"
            /\ sensor_idx' = 0
            /\ rounds' = rounds + 1
       ELSE /\ pc' = "finally"
            /\ UNCHANGED <<sensor_idx, rounds>>
    /\ UNCHANGED <<now, app_vars, cleanup_vars, running, num_sensors,
                   interval, duration, sim_start_time, total_records, stream,
                   stdout>>

\* lines 64-70 for the next sensor of the round: put_record accepts the
\* record and total_records grows, or put_record raises
Send(ok) ==
    /\ pc = "for"
    /\ sensor_idx < num_sensors
    /\ LET sensor_id == sensor_ids(num_sensors)[sensor_idx + 1]
           data == generate_sensor_data(sensor_id)
       IN  IF ok
           THEN /\ stream' = Append(stream, send_to_kinesis(data, sensor_id))
                /\ total_records' = total_records + 1
                /\ sensor_idx' = sensor_idx + 1
                /\ pc' = "for"
           ELSE /\ pc' = "except"
                /\ UNCHANGED <<stream, total_records, sensor_idx>>
    /\ UNCHANGED <<now, app_vars, cleanup_vars, running, num_sensors,
                   interval, duration, sim_start_time, rounds, stdout>>

\* lines 72-76 after the last sensor of the round: the status line divides
\* by the elapsed time, which raises ZeroDivisionError when the two clock
\* readings are equal
StatusUpdate ==
    /\ pc = "for"
    /\ sensor_idx = num_sensors
    /\ IF total_records % StatusEvery = 0
       THEN IF Elapsed = 0
            THEN pc' = "except" /\ stdout' = stdout
            ELSE /\ pc' = "sleep"
                 /\ stdout' = Append(stdout, StatusLine(total_records))
       ELSE pc' = "sleep" /\ stdout' = stdout
    /\ UNCHANGED <<now, app_vars, cleanup_vars, running, num_sensors,
                   interval, duration, sim_start_time, total_records,
                   sensor_idx, rounds, stream>>

\* line 79: time.sleep(interval) raises ValueError for a negative interval
Sleep ==
    /\ pc = "sleep"
    /\ pc' = IF interval < 0 THEN "except" ELSE "while"
    /\ UNCHANGED <<now, app_vars, cleanup_vars, sim_vars>>

\* lines 81-82: except Exception prints the error
Except ==
    /\ pc = "except"
    /\ stdout' = Append(stdout, ErrorLine)
    /\ pc' = "finally"
    /\ UNCHANGED <<now, app_vars, cleanup_vars, running, num_sensors,
                   interval, duration, sim_start_time, total_records,
                   sensor_idx, rounds, stream>>

\* lines 83-86: the finally block prints the total, then the throughput
\* total_records/elapsed_time, which raises ZeroDivisionError out of
\* simulate_sensors when the two clock readings are equal
Finally ==
    /\ pc = "finally"
    /\ IF Elapsed = 0
       THEN /\ stdout' = Append(stdout, CompleteLine(total_records))
            /\ pc' = "zero_division"
       ELSE /\ stdout' = stdout \o
                    <<CompleteLine(total_records), ThroughputLine>>
            /\ pc' = "done"
    /\ UNCHANGED <<now, app_vars, cleanup_vars, running, num_sensors,
                   interval, duration, sim_start_time, total_records,
                   sensor_idx, rounds, stream>>

NextSim ==
    \/ Tick
    \/ signal_handler
    \/ WhileTest
    \/ \E ok \in BOOLEAN : Send(ok)
    \/ StatusUpdate
    \/ Sleep
    \/ Except
    \/ Finally

SpecSim == InitSim /\ [][NextSim]_vars

\* the interpreter keeps running the one thread, every call returns or
\* raises, and the wall clock advances; a signal need never arrive
SimFairness ==
    /\ WF_vars(Tick)
    /\ WF_vars(WhileTest)
    /\ WF_vars(\E ok \in BOOLEAN : Send(ok))
    /\ WF_vars(StatusUpdate)
    /\ WF_vars(Sleep)
    /\ WF_vars(Except)
    /\ WF_vars(Finally)

SpecSimLive == SpecSim /\ SimFairness

\* a cause that ends the loop is present: the flag is cleared, the duration
\* has elapsed, or a call has raised
StopRequested ==
    \/ ~running
    \/ Elapsed >= duration
    \/ pc \in {"except", "finally", "done", "zero_division"}

\* the records the stream holds are those of the rounds in sensor order,
\* each with its sensor id as partition key, and total_records counts them
RoundsSent ==
    /\ total_records = Len(stream)
    /\ \A k \in 1..Len(stream) :
            /\ stream[k].PartitionKey = stream[k].Data.sensor_id
            /\ stream[k].PartitionKey =
                   sensor_ids(num_sensors)[((k - 1) % num_sensors) + 1]
    /\ pc \in {"sleep", "while"} => Len(stream) = rounds * num_sensors
    /\ pc = "for" => Len(stream) = (rounds - 1) * num_sensors + sensor_idx

\* the summary is on stdout: the line with the total and the throughput line
SummaryPrinted ==
    /\ Len(stdout) >= 2
    /\ stdout[Len(stdout) - 1].line = "Simulation complete"
    /\ stdout[Len(stdout)] = ThroughputLine

\* the total that the summary reports
ReportedTotal ==
    LET lines == {k \in 1..Len(stdout) : stdout[k].line = "Simulation complete"}
    IN  IF lines = {} THEN -1 ELSE stdout[CHOOSE k \in lines : TRUE].total

\* C21: the simulator always terminates; once the flag is cleared, the
\* duration has elapsed or a call has raised, no new round starts, and an
\* interrupt lets only sensors of the current round be sent; when
\* simulate_sensors has ended the summary is printed and its total is the
\* number of sends that completed, the rounds having sent one record per
\* sensor with the sensor id as partition key.
C21_TerminatesAndReports ==
    /\ <>SimEnded
    /\ [](RoundsSent)
    /\ [](SimEnded => SummaryPrinted /\ ReportedTotal = Len(stream))
    /\ [][(StopRequested => rounds' = rounds)
            /\ (~running /\ stream' # stream => pc = "for")]_vars

(***************************************************************************)
(* cleanup.py: main collects the metrics of the stack and then, unless     *)
(* --metrics-only is given, deletes the stack.  calls is the list of the   *)
(* calls made, in order.                                                   *)
(***************************************************************************)
Call(fn, arg) == [fn |-> fn, arg |-> arg]

\* lines 55-60 and 91-96: the metrics asked of CloudWatch, in order
lambda_metrics == <<"Invocations", "Duration", "Errors", "Throttles">>
kinesis_metrics ==
    <<"IncomingRecords", "IncomingBytes",
      "GetRecords.IteratorAgeMilliseconds",
      "ReadProvisionedThroughputExceeded">>
all_metrics == lambda_metrics \o kinesis_metrics

\* the resource types lines 43-47 look for
ResourceTypes == {"AWS::Lambda::Function", "AWS::Kinesis::Stream"}

\* main has parsed its arguments: lines 129-133
InitCleanup ==
    /\ now = 1
    /\ pc = "main"
    /\ sensor_data = EmptyDict
    /\ processed_data = EmptyDict
    /\ put_items = <<>>
    /\ prev_data = EmptyDict
    /\ prev_result = EmptyDict
    /\ environ = {"TABLE_NAME"}
    /\ kinesis_batch = <<>>
    /\ event = <<>>
    /\ idx = 0
    /\ processed_count = 0
    /\ start_time = 0
    /\ responses = <<>>
    /\ table = {}
    /\ SimNotStarted
    /\ metrics_only \in BOOLEAN
    /\ resources = {}
    /\ metric_idx = 0
    /\ calls = <<>>
    /\ delete_result = "not_called"
    /\ exit_status = -1

\* lines 136-137 and 28-35: main calls collect_performance_metrics, which
\* creates its two clients outside its try block; an exception of
\* boto3.client leaves collect_performance_metrics and main, and the
\* interpreter exits with status 1
collect_performance_metrics(ok) ==
    /\ pc = "main"
    /\ calls' = Append(calls, Call("collect_performance_metrics", ""))
    /\ IF ok
       THEN pc' = "list" /\ exit_status' = exit_status
       ELSE pc' = "exited" /\ exit_status' = 1
    /\ UNCHANGED <<now, app_vars, sim_vars, metrics_only, resources,
                   metric_idx, delete_result>>

\* lines 36-51: list_stack_resources raises, which the except clause of
\* line 125 prints, or returns the resources of the stack; without a Lambda
\* function and a Kinesis stream the function returns at line 51
ListResources(ok, found) ==
    /\ pc = "list"
    /\ calls' = Append(calls, Call("list_stack_resources", ""))
    /\ IF ok
       THEN /\ resources' = found
            /\ pc' = IF found = ResourceTypes THEN "metrics" ELSE "collected"
       ELSE /\ resources' = resources
            /\ pc' = "collected"
    /\ UNCHANGED <<now, app_vars, sim_vars, metrics_only, metric_idx,
                   delete_result, exit_status>>

\* lines 62-123: get_metric_statistics for the next metric raises, or
\* returns datapoints or none; after the last metric the function returns
GetMetric(ok, datapoints) ==
    /\ pc = "metrics"
    /\ metric_idx < Len(all_metrics)
    /\ IF ok
       THEN /\ calls' = Append(calls, Call("get_metric_statistics",
                 <<all_metrics[metric_idx + 1], datapoints>>))
            /\ metric_idx' = metric_idx + 1
            /\ pc' = IF metric_idx' = Len(all_metrics)
                     THEN "collected" ELSE "metrics"
       ELSE /\ calls' = Append(calls, Call("get_metric_statistics",
                 <<all_metrics[metric_idx + 1], "raised">>))
            /\ metric_idx' = metric_idx
            /\ pc' = "collected"
    /\ UNCHANGED <<now, app_vars, sim_vars, metrics_only, resources,
                   delete_result, exit_status>>

\* lines 140-141 and 8-9: with --metrics-only main returns; otherwise it
\* calls delete_stack, which creates its client outside its try block
DeleteOrReturn(ok) ==
    /\ pc = "collected"
    /\ IF metrics_only
       THEN /\ pc' = "exited"
            /\ exit_status' = 0
            /\ UNCHANGED <<calls, delete_result>>
       ELSE /\ calls' = Append(calls, Call("delete_stack", ""))
            /\ IF ok
               THEN /\ pc' = "deleting"
                    /\ UNCHANGED <<delete_result, exit_status>>
               ELSE /\ pc' = "exited"
                    /\ delete_result' = "raised"
                    /\ exit_status' = 1
    /\ UNCHANGED <<now, app_vars, sim_vars, metrics_only, resources,
                   metric_idx>>

\* lines 11-24: cloudformation.delete_stack and the waiter succeed and
\* delete_stack returns True, or one of them raises and it returns False
CloudFormationDelete(accepted, completed) ==
    /\ pc = "deleting"
    /\ calls' = IF accepted
                THEN calls \o <<Call("cloudformation.delete_stack", ""),
                                Call("waiter.wait", "")>>
                ELSE Append(calls, Call("cloudformation.delete_stack", ""))
    /\ delete_result' = IF accepted /\ completed THEN "True" ELSE "False"
    /\ pc' = "deleted"
    /\ UNCHANGED <<now, app_vars, sim_vars, metrics_only, resources,
                   metric_idx, exit_status>>

\* lines 141-145: main reports the result and exits with status 1 when
\* delete_stack returned False
Exit ==
    /\ pc = "deleted"
    /\ pc' = "exited"
    /\ exit_status' = IF delete_result = "True" THEN 0 ELSE 1
    /\ UNCHANGED <<now, app_vars, sim_vars, metrics_only, resources,
                   metric_idx, calls, delete_result>>

NextCleanup ==
    \/ \E ok \in BOOLEAN : collect_performance_metrics(ok)
    \/ \E ok \in BOOLEAN, found \in SUBSET ResourceTypes :
            ListResources(ok, found)
    \/ \E ok \in BOOLEAN, datapoints \in {"Datapoints", "No data"} :
            GetMetric(ok, datapoints)
    \/ \E ok \in BOOLEAN : DeleteOrReturn(ok)
    \/ \E accepted, completed \in BOOLEAN :
            CloudFormationDelete(accepted, completed)
    \/ Exit

SpecCleanup == InitCleanup /\ [][NextCleanup]_vars

\* the positions in calls of the calls of fn
Called(fn) == {k \in 1..Len(calls) : calls[k].fn = fn}

\* the calls that collect metrics and the calls that delete
MetricCalls ==
    Called("collect_performance_metrics") \cup Called("list_stack_resources")
        \cup Called("get_metric_statistics")
DeleteCalls ==
    Called("delete_stack") \cup Called("cloudformation.delete_stack")
        \cup Called("waiter.wait")

\* delete_stack was called and did not return True
DeletionFailed == delete_result \in {"False", "raised"}

\* C22: in cleanup main every call that collects metrics comes before every
\* call that deletes and nothing is deleted before metrics collection was
\* called; with --metrics-only delete_stack is never called; without it, when
\* the process has exited, delete_stack has been called exactly once,
\* whatever metrics collection did; and the exit status is non-zero exactly
\* when the deletion failed.
C22_MetricsThenDeleteOnce ==
    /\ \A d \in DeleteCalls :
            /\ Called("collect_performance_metrics") # {}
            /\ \A m \in MetricCalls : m < d
    /\ metrics_only => Called("delete_stack") = {}
    /\ Cardinality(Called("delete_stack")) <= 1
    /\ pc = "exited" /\ ~metrics_only =>
            Cardinality(Called("delete_stack")) = 1
    /\ pc = "exited" => (exit_status # 0 <=> DeletionFailed)
====
